---- MODULE Spec2Model ----
(***************************************************************************)
(* The semantic analysis pass of src/sts.py: Symbol objects, the chain of  *)
(* ScopedSymbolTable objects and the SemanticAnalyzer's depth-first walk.  *)
(*                                                                         *)
(* Objects live in two heaps addressed by index (syms, tables); a          *)
(* reference is an index and None is 0.  The recursion of the visit_*      *)
(* methods is the sequence stack of handler frames.  The tree is the       *)
(* input: each visit_* action draws the node it is called on from a small  *)
(* set, at the moment the walk reaches that node, so every tree within the *)
(* bounds is walked.  _SHOULD_LOG_SCOPE is the tracing flag of the module  *)
(* and printed the lines the handler that ran last has printed.  Spec is   *)
(* the pass with tracing off, TracedSpec the pass with tracing on or off.  *)
(***************************************************************************)
EXTENDS Integers, Sequences, FiniteSets, TLC

VARIABLES syms, tables, current_scope, stack, outcome, error,
          _SHOULD_LOG_SCOPE, printed

vars == <<syms, tables, current_scope, stack, outcome, error,
          _SHOULD_LOG_SCOPE, printed>>

(***************************************************************************)
(* Bounds of the model.                                                    *)
(***************************************************************************)
\* Symbol objects constructed by declarations in one run (variables,
\* parameters, procedures and functions; the builtin ones come on top).
MaxSymbols == 3
\* Nodes with children of their own kind (Condition and Compound among the
\* statements, BinOp, Call and ProcedureCall around expressions) nested
\* inside one statement of a block.
MaxDepth == 1

None == 0

BuiltinNames == {"INTEGER", "REAL"}
Names == {"x", "f"}
AllNames == Names \cup BuiltinNames
\* The identifiers the tree holds where a type name is expected: a builtin
\* type and a name that is none.
TypeNames == {"INTEGER", "x"}
\* The names of formal parameters.
ParamNames == Names \cup {"INTEGER"}
\* The source tokens a node can carry (positions in the text).
Tokens == {1, 2}

(***************************************************************************)
(* Symbols (src/sts.py 13-60).                                             *)
(***************************************************************************)
Symbol(cls, name, type) ==
    [cls |-> cls, name |-> name, type |-> type, params |-> <<>>]

VarSymbol(name, type) == Symbol("VarSymbol", name, type)

BuiltinTypeSymbol(name) == Symbol("BuiltinTypeSymbol", name, None)

ProcedureSymbol(name) == Symbol("ProcedureSymbol", name, None)

(***************************************************************************)
(* The heap: H.syms and H.tables.  The operations below are the methods of *)
(* ScopedSymbolTable as functions of the heap.                             *)
(***************************************************************************)
Heap == [syms |-> syms, tables |-> tables]

\* Constructing a Symbol object: its reference is Len(H.syms) + 1.
new(H, symbol) == [H EXCEPT !.syms = Append(@, symbol)]

\* Mutant of insert: a name the table holds keeps its symbol.
insert_if_absent(H, scope, sym) ==
    IF H.tables[scope].symbols[H.syms[sym].name] # None THEN H
    ELSE [H EXCEPT !.tables[scope].symbols[H.syms[sym].name] = sym]

\* ScopedSymbolTable.insert: self._symbols[symbol.name] = symbol
insert(H, scope, sym) ==
    [H EXCEPT !.tables[scope].symbols[H.syms[sym].name] = sym]

\* Mutant of init_builtins: REAL is forgotten.
init_builtins_without_REAL(H, scope) ==
    LET H1 == new(H, BuiltinTypeSymbol("INTEGER"))
    IN  insert(H1, scope, Len(H1.syms))

\* ScopedSymbolTable._init_builtins
init_builtins(H, scope) ==
    LET H1 == new(H, BuiltinTypeSymbol("INTEGER"))
        H2 == insert(H1, scope, Len(H1.syms))
        H3 == new(H2, BuiltinTypeSymbol("REAL"))
    IN  insert(H3, scope, Len(H3.syms))

\* The value __init__ stores in self.scopeType: the enum class TokenType
\* itself, whatever scopeType argument the caller passes.
StoredScopeType(scopeType) == "TokenType"

\* ScopedSymbolTable.__init__: the new table's reference is Len(H.tables) + 1.
\* hasReturnStatement is the class attribute (False) until an instance sets it.
ScopedSymbolTable(H, scope_name, scopeType, scope_level, enclosing_scope) ==
    LET t == [symbols            |-> [n \in AllNames |-> None],
              scope_name         |-> scope_name,
              scopeType          |-> StoredScopeType(scopeType),
              scope_level        |-> scope_level,
              enclosing_scope    |-> enclosing_scope,
              hasReturnStatement |-> FALSE]
        H1 == [H EXCEPT !.tables = Append(@, t)]
    IN  init_builtins(H1, Len(H1.tables))

\* Mutant of lookup: current_scope_only is ignored.
RECURSIVE lookup_ignoring_flag(_, _, _, _)
lookup_ignoring_flag(tbls, scope, name, current_scope_only) ==
    LET symbol == tbls[scope].symbols[name]
    IN  IF symbol # None THEN symbol
        ELSE IF tbls[scope].enclosing_scope # None
             THEN lookup_ignoring_flag(tbls, tbls[scope].enclosing_scope,
                                       name, FALSE)
        ELSE None

\* Mutant of lookup: the enclosing scopes are searched first.
RECURSIVE lookup_outermost_first(_, _, _, _)
lookup_outermost_first(tbls, scope, name, current_scope_only) ==
    LET symbol == tbls[scope].symbols[name]
        outer == IF tbls[scope].enclosing_scope # None
                 THEN lookup_outermost_first(tbls, tbls[scope].enclosing_scope,
                                             name, FALSE)
                 ELSE None
    IN  IF current_scope_only THEN symbol
        ELSE IF outer # None THEN outer
        ELSE symbol

\* ScopedSymbolTable.lookup
RECURSIVE lookup(_, _, _, _)
lookup(tbls, scope, name, current_scope_only) ==
    LET symbol == tbls[scope].symbols[name]
    IN  IF symbol # None THEN symbol
        ELSE IF current_scope_only THEN None
        ELSE IF tbls[scope].enclosing_scope # None
             THEN lookup(tbls, tbls[scope].enclosing_scope, name, FALSE)
        ELSE None

(***************************************************************************)
(* Tracing (src/sts.py 100-109, 129-131).  A line is kept by its format    *)
(* and the values formatted into it; the dump of a table by its header.    *)
(***************************************************************************)
Line(fmt, name, scope) == [fmt |-> fmt, name |-> name, scope |-> scope]

\* print(msg): the line is added to the output.
print(out, msg) == Append(out, msg)

\* Mutant of log: the flag is not read.
log_unconditionally(out, msg) == print(out, msg)

\* ScopedSymbolTable.log, SemanticAnalyzer.log
log(out, msg) == IF _SHOULD_LOG_SCOPE THEN print(out, msg) ELSE out

\* A handler's calls of log, in their order.
RECURSIVE logs(_, _)
logs(out, msgs) ==
    IF msgs = <<>> THEN out ELSE logs(log(out, Head(msgs)), Tail(msgs))

\* The output of one handler.  No handler assigns the flag:
\* SemanticAnalyzer.__init__ binds its argument to a local name.
Logs(msgs) ==
    /\ printed' = logs(<<>>, msgs)
    /\ UNCHANGED _SHOULD_LOG_SCOPE

\* ScopedSymbolTable.__str__: the header lines of the dump.
str(tbls, scope) ==
    Line("SCOPE (SCOPED SYMBOL TABLE)", tbls[scope].scope_name,
         IF tbls[scope].enclosing_scope # None
         THEN tbls[tbls[scope].enclosing_scope].scope_name
         ELSE "None")

\* The lines of insert, of __init__ through _init_builtins, and of lookup.
insert_log(name) == <<Line("Insert: {symbol.name}", name, "None")>>

ScopedSymbolTable_log == insert_log("INTEGER") \o insert_log("REAL")

RECURSIVE lookup_log(_, _, _, _)
lookup_log(tbls, scope, name, current_scope_only) ==
    LET symbol == tbls[scope].symbols[name]
        line == Line("Lookup: {name}. (Scope name: {self.scope_name})",
                     name, tbls[scope].scope_name)
    IN  IF symbol # None THEN <<line>>
        ELSE IF current_scope_only THEN <<line>>
        ELSE IF tbls[scope].enclosing_scope # None
             THEN <<line>> \o lookup_log(tbls, tbls[scope].enclosing_scope,
                                         name, FALSE)
        ELSE <<line>>

(***************************************************************************)
(* The state after SemanticAnalyzer.__init__ : the placeholder scope.      *)
(***************************************************************************)
\* No exception has been raised.
NoError == [exception |-> "None", error_code |-> "None", token |-> None]

InitHeap ==
    ScopedSymbolTable([syms |-> <<>>, tables |-> <<>>],
                      "initial", "PROGRAM", 1, None)

Init ==
    /\ syms = InitHeap.syms
    /\ tables = InitHeap.tables
    /\ current_scope = 1
    /\ stack = <<>>
    /\ outcome = "constructed"
    /\ error = NoError
    /\ _SHOULD_LOG_SCOPE = FALSE
    /\ printed = logs(<<>>, ScopedSymbolTable_log)

\* The same with the flag that base exports either way.
TracedInit ==
    /\ syms = InitHeap.syms
    /\ tables = InitHeap.tables
    /\ current_scope = 1
    /\ stack = <<>>
    /\ outcome = "constructed"
    /\ error = NoError
    /\ _SHOULD_LOG_SCOPE \in BOOLEAN
    /\ printed = logs(<<>>, ScopedSymbolTable_log)

(***************************************************************************)
(* The nodes of the tree, by the attributes the handlers read.             *)
(***************************************************************************)
RECURSIVE SeqsUpTo(_, _)
SeqsUpTo(S, n) ==
    IF n = 0 THEN {<<>>}
    ELSE LET shorter == SeqsUpTo(S, n - 1)
         IN  shorter \cup {Append(q, e) : q \in shorter, e \in S}

ParamNodes == [type_node : [value : TypeNames], var_node : [value : ParamNames]]
ParamLists == SeqsUpTo(ParamNodes, MaxSymbols - 1)
VarDeclNodes ==
    [type_node : [value : TypeNames],
     var_node  : [value : AllNames, token : Tokens]]
\* A procedure can bear the name of a builtin type as well.
ProcNames == Names \cup {"INTEGER"}
ProcedureDeclNodes == [procName : ProcNames, params : ParamLists]
FunctionDeclNodes == [funcName : Names, params : ParamLists, token : Tokens]
AssignNodes == [left : [value : Names], token : Tokens]
VarNodes == [value : Names, token : Tokens]
\* The loop body of a While node, which no handler reads: a statement.
NoBody == [kind |-> "None", left |-> [value |-> "x"], token |-> None]
Bodies ==
    {[kind |-> "NoOp", left |-> [value |-> "x"], token |-> None]}
    \cup {[kind |-> "Assign", left |-> [value |-> n], token |-> 1] :
            n \in Names}
WhileNodes == [myDo : [child : Bodies]]

(***************************************************************************)
(* The call stack.  A frame is one running visit_* method: h is the        *)
(* method, pc the child it is visiting, and the rest its local variables   *)
(* (None where the method has none).                                       *)
(***************************************************************************)
Frame(h, pc) ==
    [h |-> h, pc |-> pc, name |-> "None", token |-> None, scope |-> None,
     symbol |-> None, body |-> NoBody]

Top == stack[Len(stack)]
Callers == SubSeq(stack, 1, Len(stack) - 1)

Visiting == outcome = "visiting" /\ stack # <<>>

\* Frames whose next child is a declaration, a statement, an expression.
DeclSlot(f) == f.h = "Block" /\ f.pc = "declarations"
StmtSlot(f) == f.h \in {"Compound", "Then", "MyElse"}
ExprSlot(f) ==
    \/ f.h \in {"Assign", "BinOp", "ProcedureCall", "Call", "While"}
    \/ f.h = "Condition" /\ f.pc = "condition"

\* A block's own Compound is not nested in a statement.
Depth(stk) ==
    Cardinality({i \in 1..Len(stk) :
                    stk[i].h \in {"Condition", "Compound", "BinOp",
                                  "ProcedureCall", "Call"}})
    - Cardinality({i \in 1..Len(stk) :
                      stk[i].h = "Block" /\ stk[i].pc = "compound_statement"})

\* The visit of a child of the frame on top of stk has returned: where
\* the walk continues.  A method with nothing left to do returns in turn.
RECURSIVE Return(_)
Return(stk) ==
    LET f == stk[Len(stk)]
        callers == SubSeq(stk, 1, Len(stk) - 1)
        At(pc) == Append(callers, [f EXCEPT !.pc = pc])
    IN  CASE f.h \in {"Program", "ProcedureDecl", "FunctionDecl"} ->
                At("leave")
          [] f.h = "Block" ->
                IF f.pc = "declarations" THEN stk ELSE Return(callers)
          [] f.h \in {"Compound", "ProcedureCall", "Call"} -> stk
          [] f.h = "BinOp" ->
                IF f.pc = "left" THEN At("right") ELSE Return(callers)
          [] f.h = "Condition" ->
                IF f.pc = "condition" THEN At("then")
                ELSE IF f.pc = "then" THEN At("myElse")
                ELSE Return(callers)
          [] f.h \in {"Assign", "While", "Then", "MyElse"} -> Return(callers)

Exception(exception, error_code, token) ==
    [exception |-> exception, error_code |-> error_code, token |-> token]

SemanticError(error_code, token) ==
    Exception("SemanticError", error_code, token)

\* The read of an attribute the object does not have.
AttributeError(attribute) == Exception("AttributeError", attribute, None)

\* Mutant of Raise: the error is recorded and the walk goes on.
Raise_and_continue(exception) ==
    /\ error' = exception
    /\ UNCHANGED <<syms, tables, current_scope, stack, outcome>>

\* raise: the exception leaves every handler on the stack; nothing in
\* src/sts.py catches it.
Raise(exception) ==
    /\ outcome' = "raised"
    /\ error' = exception
    /\ stack' = <<>>
    /\ UNCHANGED <<syms, tables, current_scope>>

\* The symbols constructed by declarations: every table constructs two
\* builtin ones.
UserSymbols(H) == Len(H.syms) - 2 * Len(H.tables)

(***************************************************************************)
(* visit_Program                                                           *)
(***************************************************************************)
visit_Program ==
    /\ outcome = "constructed"
    /\ LET H == ScopedSymbolTable(Heap, "global", "PROGRAM", 1, current_scope)
           global_scope == Len(H.tables)
       IN  /\ syms' = H.syms
           /\ tables' = H.tables
           /\ current_scope' = global_scope
           /\ stack' = <<[Frame("Program", "block") EXCEPT
                             !.scope = global_scope],
                         Frame("Block", "declarations")>>
    /\ outcome' = "visiting"
    /\ UNCHANGED error

visit_Program_leave ==
    /\ Visiting
    /\ Top.h = "Program" /\ Top.pc = "leave"
    /\ current_scope' = tables[current_scope].enclosing_scope
    /\ stack' = <<>>
    /\ outcome' = "returned"
    /\ UNCHANGED <<syms, tables, error>>

(***************************************************************************)
(* visit_Block, visit_Compound                                             *)
(***************************************************************************)
\* The declarations are exhausted: self.visit(node.compound_statement)
visit_Block_compound ==
    /\ Visiting
    /\ DeclSlot(Top)
    /\ stack' = Callers \o <<[Top EXCEPT !.pc = "compound_statement"],
                             Frame("Compound", "children")>>
    /\ UNCHANGED <<syms, tables, current_scope, outcome, error>>

\* A Compound that is itself a statement.
visit_Compound ==
    /\ Visiting
    /\ StmtSlot(Top)
    /\ Depth(stack) < MaxDepth
    /\ stack' = Append(stack, Frame("Compound", "children"))
    /\ UNCHANGED <<syms, tables, current_scope, outcome, error>>

\* The children are exhausted.
visit_Compound_return ==
    /\ Visiting
    /\ Top.h = "Compound"
    /\ stack' = Return(Callers)
    /\ UNCHANGED <<syms, tables, current_scope, outcome, error>>

\* Mutant of visit_VarDecl: the duplicate test looks up the whole chain.
visit_VarDecl_chained(node) ==
    /\ Visiting
    /\ DeclSlot(Top)
    /\ LET type_name == node.type_node.value
           type_symbol == lookup(tables, current_scope, type_name, FALSE)
           var_name == node.var_node.value
           H1 == new(Heap, VarSymbol(var_name, type_symbol))
           var_symbol == Len(H1.syms)
       IN  IF lookup(tables, current_scope, var_name, FALSE) # None
           THEN Raise(SemanticError("DUPLICATE_ID", node.var_node.token))
           ELSE LET H2 == insert(H1, current_scope, var_symbol)
                IN  /\ UserSymbols(Heap) < MaxSymbols
                    /\ syms' = H2.syms
                    /\ tables' = H2.tables
                    /\ stack' = Return(stack)
                    /\ UNCHANGED <<current_scope, outcome, error>>

\* Mutant of visit_VarDecl: a builtin type symbol does not count as a
\* duplicate.
visit_VarDecl_shadowing_builtins(node) ==
    /\ Visiting
    /\ DeclSlot(Top)
    /\ LET type_name == node.type_node.value
           type_symbol == lookup(tables, current_scope, type_name, FALSE)
           var_name == node.var_node.value
           H1 == new(Heap, VarSymbol(var_name, type_symbol))
           var_symbol == Len(H1.syms)
           found == lookup(tables, current_scope, var_name, TRUE)
       IN  IF found # None /\ syms[found].cls # "BuiltinTypeSymbol"
           THEN Raise(SemanticError("DUPLICATE_ID", node.var_node.token))
           ELSE LET H2 == insert(H1, current_scope, var_symbol)
                IN  /\ UserSymbols(Heap) < MaxSymbols
                    /\ syms' = H2.syms
                    /\ tables' = H2.tables
                    /\ stack' = Return(stack)
                    /\ UNCHANGED <<current_scope, outcome, error>>

(***************************************************************************)
(* visit_VarDecl                                                           *)
(***************************************************************************)
visit_VarDecl(node) ==
    /\ Visiting
    /\ DeclSlot(Top)
    /\ LET type_name == node.type_node.value
           type_symbol == lookup(tables, current_scope, type_name, FALSE)
           var_name == node.var_node.value
           H1 == new(Heap, VarSymbol(var_name, type_symbol))
           var_symbol == Len(H1.syms)
       IN  IF lookup(tables, current_scope, var_name, TRUE) # None
           THEN Raise(SemanticError("DUPLICATE_ID", node.var_node.token))
           ELSE LET H2 == insert(H1, current_scope, var_symbol)
                IN  /\ UserSymbols(Heap) < MaxSymbols
                    /\ syms' = H2.syms
                    /\ tables' = H2.tables
                    /\ stack' = Return(stack)
                    /\ UNCHANGED <<current_scope, outcome, error>>

(***************************************************************************)
(* visit_ProcedureDecl, visit_FunctionDecl                                 *)
(***************************************************************************)
\* Mutant of declare_params: the parameter is put at the front of the list.
RECURSIVE declare_params_prepending(_, _, _, _)
declare_params_prepending(H, scope, proc_symbol, params) ==
    IF params = <<>> THEN H
    ELSE LET param == Head(params)
             param_type == lookup(H.tables, scope, param.type_node.value, FALSE)
             param_name == param.var_node.value
             H1 == new(H, VarSymbol(param_name, param_type))
             var_symbol == Len(H1.syms)
             H2 == insert(H1, scope, var_symbol)
             H3 == [H2 EXCEPT !.syms[proc_symbol].params =
                                    <<var_symbol>> \o @]
         IN  declare_params_prepending(H3, scope, proc_symbol, Tail(params))

\* The loop over node.params, in the scope just entered.
RECURSIVE declare_params(_, _, _, _)
declare_params(H, scope, proc_symbol, params) ==
    IF params = <<>> THEN H
    ELSE LET param == Head(params)
             param_type == lookup(H.tables, scope, param.type_node.value, FALSE)
             param_name == param.var_node.value
             H1 == new(H, VarSymbol(param_name, param_type))
             var_symbol == Len(H1.syms)
             H2 == insert(H1, scope, var_symbol)
             H3 == [H2 EXCEPT !.syms[proc_symbol].params =
                                    Append(@, var_symbol)]
         IN  declare_params(H3, scope, proc_symbol, Tail(params))

\* Mutant of enter_scope: the symbol goes into the new scope.
enter_scope_inserting_inside(h, name, scopeType, params, token) ==
    /\ Visiting
    /\ DeclSlot(Top)
    /\ UserSymbols(Heap) + 1 + Len(params) <= MaxSymbols
    /\ LET H1 == new(Heap, ProcedureSymbol(name))
           proc_symbol == Len(H1.syms)
           H2 == ScopedSymbolTable(H1, name, scopeType,
                                   tables[current_scope].scope_level + 1,
                                   current_scope)
           procedure_scope == Len(H2.tables)
           H3 == insert(H2, procedure_scope, proc_symbol)
           H4 == declare_params(H3, procedure_scope, proc_symbol, params)
       IN  /\ syms' = H4.syms
           /\ tables' = H4.tables
           /\ current_scope' = procedure_scope
           /\ stack' = stack \o
                  <<[Frame(h, "blockNode") EXCEPT !.name = name,
                                                  !.scope = procedure_scope,
                                                  !.symbol = proc_symbol,
                                                  !.token = token],
                    Frame("Block", "declarations")>>
    /\ UNCHANGED <<outcome, error>>

\* What both handlers do up to the visit of node.blockNode: the symbol goes
\* into the current scope, the new scope is entered, the parameters declared.
enter_scope(h, name, scopeType, params, token) ==
    /\ Visiting
    /\ DeclSlot(Top)
    /\ UserSymbols(Heap) + 1 + Len(params) <= MaxSymbols
    /\ LET H1 == new(Heap, ProcedureSymbol(name))
           proc_symbol == Len(H1.syms)
           H2 == insert(H1, current_scope, proc_symbol)
           H3 == ScopedSymbolTable(H2, name, scopeType,
                                   tables[current_scope].scope_level + 1,
                                   current_scope)
           procedure_scope == Len(H3.tables)
           H4 == declare_params(H3, procedure_scope, proc_symbol, params)
       IN  /\ syms' = H4.syms
           /\ tables' = H4.tables
           /\ current_scope' = procedure_scope
           /\ stack' = stack \o
                  <<[Frame(h, "blockNode") EXCEPT !.name = name,
                                                  !.scope = procedure_scope,
                                                  !.symbol = proc_symbol,
                                                  !.token = token],
                    Frame("Block", "declarations")>>
    /\ UNCHANGED <<outcome, error>>

visit_ProcedureDecl(node) ==
    enter_scope("ProcedureDecl", node.procName, "PROCEDURE", node.params, None)

\* Mutant of visit_ProcedureDecl_leave: the scope stays the current one.
visit_ProcedureDecl_leave_without_pop ==
    /\ Visiting
    /\ Top.h = "ProcedureDecl" /\ Top.pc = "leave"
    /\ stack' = Return(Callers)
    /\ UNCHANGED <<syms, tables, current_scope, outcome, error>>

visit_ProcedureDecl_leave ==
    /\ Visiting
    /\ Top.h = "ProcedureDecl" /\ Top.pc = "leave"
    /\ current_scope' = tables[current_scope].enclosing_scope
    /\ stack' = Return(Callers)
    /\ UNCHANGED <<syms, tables, outcome, error>>

\* self.visit_Type(node.returnType) does nothing.
visit_FunctionDecl(node) ==
    enter_scope("FunctionDecl", node.funcName, "FUNCTION", node.params,
                node.token)

\* Mutant of visit_FunctionDecl_leave: the flag is not checked.
visit_FunctionDecl_leave_unchecked ==
    /\ Visiting
    /\ Top.h = "FunctionDecl" /\ Top.pc = "leave"
    /\ current_scope' = tables[current_scope].enclosing_scope
    /\ stack' = Return(Callers)
    /\ UNCHANGED <<syms, tables, outcome, error>>

\* After the body: the check of procedureScope.hasReturnStatement, then
\* self.current_scope.enclosingScope, an attribute no scope table has.
visit_FunctionDecl_leave ==
    /\ Visiting
    /\ Top.h = "FunctionDecl" /\ Top.pc = "leave"
    /\ IF tables[Top.scope].hasReturnStatement = FALSE
       THEN Raise(SemanticError("MISSING_RETURN", Top.token))
       ELSE Raise(AttributeError("enclosingScope"))

(***************************************************************************)
(* Statements                                                              *)
(***************************************************************************)
\* The test of the return convention reads currentScope.ScopeName, an
\* attribute no scope table has, once its first conjunct holds.
visit_Assign(node) ==
    /\ Visiting
    /\ StmtSlot(Top)
    /\ LET varName == node.left.value
           currentScope == current_scope
       IN  IF tables[currentScope].scopeType = "FUNCTION"
           THEN Raise(AttributeError("ScopeName"))
           ELSE IF lookup(tables, current_scope, varName, FALSE) = None
           THEN Raise(SemanticError("ID_NOT_FOUND", node.token))
           ELSE /\ stack' = Append(stack, [Frame("Assign", "right") EXCEPT
                                              !.name = varName])
                /\ UNCHANGED <<syms, tables, current_scope, outcome, error>>

visit_NoOp ==
    /\ Visiting
    /\ StmtSlot(Top)
    /\ stack' = Return(stack)
    /\ UNCHANGED <<syms, tables, current_scope, outcome, error>>

visit_ProcedureCall ==
    /\ Visiting
    /\ StmtSlot(Top)
    /\ Depth(stack) < MaxDepth
    /\ stack' = Append(stack, Frame("ProcedureCall", "actual_params"))
    /\ UNCHANGED <<syms, tables, current_scope, outcome, error>>

\* The actual parameters are exhausted.
visit_ProcedureCall_return ==
    /\ Visiting
    /\ Top.h = "ProcedureCall"
    /\ stack' = Return(Callers)
    /\ UNCHANGED <<syms, tables, current_scope, outcome, error>>

visit_Condition ==
    /\ Visiting
    /\ StmtSlot(Top)
    /\ Depth(stack) < MaxDepth
    /\ stack' = Append(stack, Frame("Condition", "condition"))
    /\ UNCHANGED <<syms, tables, current_scope, outcome, error>>

visit_Then ==
    /\ Visiting
    /\ Top.h = "Condition" /\ Top.pc = "then"
    /\ stack' = Append(stack, Frame("Then", "child"))
    /\ UNCHANGED <<syms, tables, current_scope, outcome, error>>

visit_MyElse ==
    /\ Visiting
    /\ Top.h = "Condition" /\ Top.pc = "myElse"
    /\ stack' = Append(stack, Frame("MyElse", "child"))
    /\ UNCHANGED <<syms, tables, current_scope, outcome, error>>

\* node.myElse is None.
visit_Condition_return ==
    /\ Visiting
    /\ Top.h = "Condition" /\ Top.pc = "myElse"
    /\ stack' = Return(Callers)
    /\ UNCHANGED <<syms, tables, current_scope, outcome, error>>

\* Mutant of visit_While: the target of an Assign that is the loop body is
\* looked up.
visit_While_visiting_body(node) ==
    /\ Visiting
    /\ StmtSlot(Top)
    /\ IF /\ node.myDo.child.kind = "Assign"
          /\ lookup(tables, current_scope, node.myDo.child.left.value,
                    FALSE) = None
       THEN Raise(SemanticError("ID_NOT_FOUND", node.myDo.child.token))
       ELSE /\ stack' = Append(stack, [Frame("While", "condition") EXCEPT
                                          !.body = node.myDo.child])
            /\ UNCHANGED <<syms, tables, current_scope, outcome, error>>

\* The handler visits node.condition and nothing else of the node.
visit_While(node) ==
    /\ Visiting
    /\ StmtSlot(Top)
    /\ stack' = Append(stack, [Frame("While", "condition") EXCEPT
                                  !.body = node.myDo.child])
    /\ UNCHANGED <<syms, tables, current_scope, outcome, error>>

(***************************************************************************)
(* Expressions                                                             *)
(***************************************************************************)
\* Mutant of visit_Var: an absent symbol is not reported.
visit_Var_unchecked(node) ==
    /\ Visiting
    /\ ExprSlot(Top)
    /\ stack' = Return(stack)
    /\ UNCHANGED <<syms, tables, current_scope, outcome, error>>

visit_Var(node) ==
    /\ Visiting
    /\ ExprSlot(Top)
    /\ LET var_name == node.value
           var_symbol == lookup(tables, current_scope, var_name, FALSE)
       IN  IF var_symbol = None
           THEN Raise(SemanticError("ID_NOT_FOUND", node.token))
           ELSE /\ stack' = Return(stack)
                /\ UNCHANGED <<syms, tables, current_scope, outcome, error>>

visit_Num ==
    /\ Visiting
    /\ ExprSlot(Top)
    /\ stack' = Return(stack)
    /\ UNCHANGED <<syms, tables, current_scope, outcome, error>>

visit_BinOp ==
    /\ Visiting
    /\ ExprSlot(Top)
    /\ Depth(stack) < MaxDepth
    /\ stack' = Append(stack, Frame("BinOp", "left"))
    /\ UNCHANGED <<syms, tables, current_scope, outcome, error>>

visit_Call ==
    /\ Visiting
    /\ ExprSlot(Top)
    /\ Depth(stack) < MaxDepth
    /\ stack' = Append(stack, Frame("Call", "actual_params"))
    /\ UNCHANGED <<syms, tables, current_scope, outcome, error>>

\* The actual parameters are exhausted.
visit_Call_return ==
    /\ Visiting
    /\ Top.h = "Call"
    /\ stack' = Return(Callers)
    /\ UNCHANGED <<syms, tables, current_scope, outcome, error>>

(***************************************************************************)
(* The lines each handler logs, in the state it is called in.              *)
(***************************************************************************)
visit_Program_log ==
    <<Line("ENTER scope: global", "global", "None")>>
    \o ScopedSymbolTable_log

visit_Program_leave_log ==
    <<str(tables, Top.scope), Line("LEAVE scope: global", "global", "None")>>

visit_VarDecl_log(node) ==
    lookup_log(tables, current_scope, node.type_node.value, FALSE)
    \o lookup_log(tables, current_scope, node.var_node.value, TRUE)
    \o IF lookup(tables, current_scope, node.var_node.value, TRUE) # None
       THEN <<>>
       ELSE insert_log(node.var_node.value)

\* The loop over node.params: a lookup of the type and an insert each.
RECURSIVE declare_params_log(_, _, _, _)
declare_params_log(H, scope, proc_symbol, params) ==
    IF params = <<>> THEN <<>>
    ELSE LET param == Head(params)
         IN  lookup_log(H.tables, scope, param.type_node.value, FALSE)
             \o insert_log(param.var_node.value)
             \o declare_params_log(
                    declare_params(H, scope, proc_symbol, <<param>>),
                    scope, proc_symbol, Tail(params))

enter_scope_log(fmt, name, scopeType, params) ==
    LET H1 == new(Heap, ProcedureSymbol(name))
        proc_symbol == Len(H1.syms)
        H2 == insert(H1, current_scope, proc_symbol)
        H3 == ScopedSymbolTable(H2, name, scopeType,
                                tables[current_scope].scope_level + 1,
                                current_scope)
    IN  insert_log(name)
        \o <<Line(fmt, name, "None")>>
        \o ScopedSymbolTable_log
        \o declare_params_log(H3, Len(H3.tables), proc_symbol, params)

visit_ProcedureDecl_log(node) ==
    enter_scope_log("ENTER scope: {proc_name}", node.procName, "PROCEDURE",
                    node.params)

visit_ProcedureDecl_leave_log ==
    <<str(tables, Top.scope),
      Line("LEAVE scope: {proc_name}", Top.name, "None")>>

visit_FunctionDecl_log(node) ==
    enter_scope_log("Enter Scope:{}", node.funcName, "FUNCTION", node.params)

\* The line after the check, 'Leave scope : {}', is never reached.
visit_FunctionDecl_leave_log == <<str(tables, Top.scope)>>

visit_Assign_log(node) ==
    IF tables[current_scope].scopeType = "FUNCTION" THEN <<>>
    ELSE lookup_log(tables, current_scope, node.left.value, FALSE)

visit_Var_log(node) == lookup_log(tables, current_scope, node.value, FALSE)

(***************************************************************************)
(* The walk.  Walk is what the handlers do to the symbols, the tables and  *)
(* the stack; Next is the handlers with the lines they log.                *)
(***************************************************************************)
Walk ==
    \/ visit_Program
    \/ visit_Program_leave
    \/ visit_ProcedureDecl_leave
    \/ visit_FunctionDecl_leave
    \/ visit_Compound_return
    \/ visit_ProcedureCall_return
    \/ visit_Then
    \/ visit_MyElse
    \/ visit_Condition_return
    \/ visit_Call_return
    \* self.visit of a declaration of a block, or of its compound statement
    \/ /\ Visiting /\ DeclSlot(Top)
       /\ \/ \E node \in VarDeclNodes : visit_VarDecl(node)
          \/ \E node \in ProcedureDeclNodes : visit_ProcedureDecl(node)
          \/ \E node \in FunctionDeclNodes : visit_FunctionDecl(node)
          \/ visit_Block_compound
    \* self.visit of a statement
    \/ /\ Visiting /\ StmtSlot(Top)
       /\ \/ \E node \in AssignNodes : visit_Assign(node)
          \/ \E node \in WhileNodes : visit_While(node)
          \/ visit_Compound
          \/ visit_NoOp
          \/ visit_ProcedureCall
          \/ visit_Condition
    \* self.visit of an expression
    \/ /\ Visiting /\ ExprSlot(Top)
       /\ \/ \E node \in VarNodes : visit_Var(node)
          \/ visit_Num
          \/ visit_BinOp
          \/ visit_Call

Next ==
    \/ visit_Program /\ Logs(visit_Program_log)
    \/ visit_Program_leave /\ Logs(visit_Program_leave_log)
    \/ visit_Block_compound /\ Logs(<<>>)
    \/ visit_Compound /\ Logs(<<>>)
    \/ visit_Compound_return /\ Logs(<<>>)
    \/ \E node \in VarDeclNodes :
           visit_VarDecl(node) /\ Logs(visit_VarDecl_log(node))
    \/ \E node \in ProcedureDeclNodes :
           visit_ProcedureDecl(node) /\ Logs(visit_ProcedureDecl_log(node))
    \/ visit_ProcedureDecl_leave /\ Logs(visit_ProcedureDecl_leave_log)
    \/ \E node \in FunctionDeclNodes :
           visit_FunctionDecl(node) /\ Logs(visit_FunctionDecl_log(node))
    \/ visit_FunctionDecl_leave /\ Logs(visit_FunctionDecl_leave_log)
    \/ \E node \in AssignNodes :
           visit_Assign(node) /\ Logs(visit_Assign_log(node))
    \/ visit_NoOp /\ Logs(<<>>)
    \/ visit_ProcedureCall /\ Logs(<<>>)
    \/ visit_ProcedureCall_return /\ Logs(<<>>)
    \/ visit_Condition /\ Logs(<<>>)
    \/ visit_Then /\ Logs(<<>>)
    \/ visit_MyElse /\ Logs(<<>>)
    \/ visit_Condition_return /\ Logs(<<>>)
    \/ \E node \in WhileNodes : visit_While(node) /\ Logs(<<>>)
    \/ \E node \in VarNodes : visit_Var(node) /\ Logs(visit_Var_log(node))
    \/ visit_Num /\ Logs(<<>>)
    \/ visit_BinOp /\ Logs(<<>>)
    \/ visit_Call /\ Logs(<<>>)
    \/ visit_Call_return /\ Logs(<<>>)

Spec == Init /\ [][Next]_vars

TracedSpec == TracedInit /\ [][Next]_vars

(***************************************************************************)
(* Definitions the properties below are stated with.                       *)
(***************************************************************************)
\* The scope tables reachable from scope through enclosing_scope.
RECURSIVE Chain(_, _)
Chain(tbls, scope) ==
    IF scope = None THEN {}
    ELSE {scope} \cup Chain(tbls, tbls[scope].enclosing_scope)

Max(S) == CHOOSE m \in S : \A k \in S : k <= m

\* The tables on the chain that hold name.  A table is constructed after
\* the one that encloses it, so the nearest holder has the greatest index.
Holders(tbls, scope, name) ==
    {t \in Chain(tbls, scope) : tbls[t].symbols[name] # None}

Nearest(tbls, scope, name) ==
    IF Holders(tbls, scope, name) = {} THEN None
    ELSE tbls[Max(Holders(tbls, scope, name))].symbols[name]

\* What a reference to name resolves to in the current scope.
Resolved(name) == lookup(tables, current_scope, name, FALSE)

IsParam(sym) ==
    \E p \in 1..Len(syms) :
        \E i \in 1..Len(syms[p].params) : syms[p].params[i] = sym

\* A symbol a VarDecl constructed: a VarSymbol that is no formal parameter.
DeclaredByVarDecl(sym) == syms[sym].cls = "VarSymbol" /\ ~IsParam(sym)

(***************************************************************************)
(* C10  lookup(name, current_scope_only) from any scope table: with        *)
(* current_scope_only it returns what this table holds under name (a       *)
(* symbol or None); without it, the symbol of the nearest table on the     *)
(* enclosing chain that holds name, and None when no table on the chain    *)
(* holds it.                                                               *)
(***************************************************************************)
C10_LookupNearestOnChain ==
    \A scope \in 1..Len(tables) :
        \A name \in AllNames :
            /\ lookup(tables, scope, name, TRUE) = tables[scope].symbols[name]
            /\ lookup(tables, scope, name, FALSE) = Nearest(tables, scope, name)

\* A nested scope where one name is found through the chain only and
\* another is held by this table and by an enclosing one.
C10_Witness ==
    /\ Len(tables) >= 3
    /\ current_scope = Len(tables)
    /\ \E name \in Names :
           /\ tables[current_scope].symbols[name] = None
           /\ Resolved(name) # None
    /\ \E name \in Names :
           /\ tables[current_scope].symbols[name] # None
           /\ Cardinality(Holders(tables, current_scope, name)) >= 2

(***************************************************************************)
(* C7  Every scope table holds INTEGER and REAL, as builtin type symbols   *)
(* of its own, from its construction on: a table just constructed, at any  *)
(* depth, holds these two symbols and nothing else, no two tables share a  *)
(* builtin symbol, and at every point of the walk a lookup of INTEGER or   *)
(* REAL from the current scope finds a symbol.                             *)
(***************************************************************************)
C7_BuiltinsInEveryScope ==
    /\ \A name \in BuiltinNames :
           /\ Resolved(name) # None
           /\ \A s \in 1..Len(tables) : tables[s].symbols[name] # None
           /\ \A s, t \in 1..Len(tables) :
                  s # t => tables[s].symbols[name] # tables[t].symbols[name]
    /\ \A scopeType \in {"PROGRAM", "PROCEDURE", "FUNCTION"} :
           LET H == ScopedSymbolTable(Heap, "f", scopeType,
                                      tables[current_scope].scope_level + 1,
                                      current_scope)
               t == H.tables[Len(H.tables)]
           IN  /\ Len(H.tables) = Len(tables) + 1
               /\ {name \in AllNames : t.symbols[name] # None} = BuiltinNames
               /\ \A name \in BuiltinNames :
                      /\ t.symbols[name] > Len(syms)
                      /\ H.syms[t.symbols[name]] = BuiltinTypeSymbol(name)
               /\ t.symbols["INTEGER"] # t.symbols["REAL"]

\* The walk is inside a procedure nested in a procedure.
C7_Witness ==
    /\ outcome = "visiting"
    /\ Len(tables) = 4
    /\ current_scope = 4
    /\ tables[4].enclosing_scope = 3
    /\ tables[3].enclosing_scope = 2

(***************************************************************************)
(* C3  A Var reference or an Assign target whose name no table on the      *)
(* chain from the current scope holds raises ID_NOT_FOUND with the node's  *)
(* token, whatever tables off the chain (scopes already left) hold.        *)
(***************************************************************************)
C3_IdentifierNotFound ==
    [][/\ \A node \in VarNodes :
              visit_Var(node) /\ Holders(tables, current_scope, node.value) = {}
              => /\ outcome' = "raised"
                 /\ error' = SemanticError("ID_NOT_FOUND", node.token)
       /\ \A node \in AssignNodes :
              /\ visit_Assign(node)
              /\ Holders(tables, current_scope, node.left.value) = {}
              => /\ outcome' = "raised"
                 /\ error' = SemanticError("ID_NOT_FOUND", node.token)
      ]_vars

\* ID_NOT_FOUND was raised in the program's block while the scope of a
\* procedure already left holds a name that the chain does not hold.
C3_Witness ==
    /\ outcome = "raised"
    /\ error.error_code = "ID_NOT_FOUND"
    /\ current_scope = 2
    /\ \E name \in Names :
           /\ Holders(tables, current_scope, name) = {}
           /\ \E t \in 1..Len(tables) :
                  /\ t \notin Chain(tables, current_scope)
                  /\ tables[t].symbols[name] # None
                  /\ DeclaredByVarDecl(tables[t].symbols[name])

(***************************************************************************)
(* C2  A VarDecl whose name the current scope's own table holds raises     *)
(* DUPLICATE_ID with this declaration's variable token and leaves every    *)
(* table as it was; a VarDecl whose name the current table does not hold   *)
(* (an enclosing one may) raises nothing and puts a new VarSymbol of that  *)
(* name into the current table only.                                       *)
(***************************************************************************)
C2_DuplicateIdentifier ==
    [][\A node \in VarDeclNodes :
           visit_VarDecl(node) =>
           LET var_name == node.var_node.value
               fresh == Len(syms) + 1
           IN  IF tables[current_scope].symbols[var_name] # None
               THEN /\ outcome' = "raised"
                    /\ error' = SemanticError("DUPLICATE_ID",
                                              node.var_node.token)
                    /\ tables' = tables
               ELSE /\ outcome' = "visiting"
                    /\ error' = NoError
                    /\ tables'[current_scope].symbols[var_name] = fresh
                    /\ Len(syms') = fresh
                    /\ syms'[fresh].cls = "VarSymbol"
                    /\ syms'[fresh].name = var_name
                    /\ \A t \in 1..Len(tables) :
                           t # current_scope => tables'[t] = tables[t]
      ]_vars

\* DUPLICATE_ID was raised in a procedure's scope whose table holds a
\* variable of a name that the enclosing table holds as well.
C2_Witness ==
    /\ outcome = "raised"
    /\ error.error_code = "DUPLICATE_ID"
    /\ current_scope >= 3
    /\ \E name \in Names :
           /\ tables[current_scope].symbols[name] # None
           /\ DeclaredByVarDecl(tables[current_scope].symbols[name])
           /\ tables[tables[current_scope].enclosing_scope].symbols[name]
                  # None

(***************************************************************************)
(* C5  When a FunctionDecl's body has been visited without an error and    *)
(* the function's scope has recorded no return assignment, MISSING_RETURN  *)
(* is raised with the token of that function's declaration, with the       *)
(* function's scope still the current one; MISSING_RETURN is raised        *)
(* nowhere else, and a FunctionDecl gets there only when the Compound of   *)
(* its body's Block returns.                                               *)
(***************************************************************************)
C5_MissingReturn ==
    [][/\ \A node \in FunctionDeclNodes :
              visit_FunctionDecl(node) =>
                  /\ stack'[Len(stack) + 1].h = "FunctionDecl"
                  /\ stack'[Len(stack) + 1].token = node.token
                  /\ stack'[Len(stack) + 1].scope = current_scope'
       /\ \A i \in 1..Len(stack') :
              /\ stack'[i].h = "FunctionDecl"
              /\ stack'[i].pc = "leave"
              /\ i <= Len(stack) => stack[i].pc # "leave"
              => /\ Len(stack) = i + 2
                 /\ stack[i].h = "FunctionDecl"
                 /\ stack[i + 1].h = "Block"
                 /\ stack[i + 1].pc = "compound_statement"
                 /\ stack[i + 2].h = "Compound"
       /\ /\ stack # <<>>
          /\ Top.h = "FunctionDecl"
          /\ Top.pc = "leave"
          /\ tables[Top.scope].hasReturnStatement = FALSE
          => /\ outcome' = "raised"
             /\ error' = SemanticError("MISSING_RETURN", Top.token)
             /\ current_scope' = Top.scope
             /\ tables' = tables
       /\ error'.error_code = "MISSING_RETURN" /\ error = NoError
          => /\ stack # <<>>
             /\ Top.h = "FunctionDecl"
             /\ Top.pc = "leave"
      ]_vars

\* MISSING_RETURN was raised for a function nested in a procedure or
\* function.
C5_Witness ==
    /\ outcome = "raised"
    /\ error.error_code = "MISSING_RETURN"
    /\ current_scope = 4
    /\ tables[4].enclosing_scope = 3

\* The place of a child of a Condition in the order of its visits.
Rank(pc) == CASE pc = "condition" -> 1 [] pc = "then" -> 2 [] pc = "myElse" -> 3

\* Every Condition on the stack is at the child its position in the order
\* allows, and none goes back to an earlier child.
ConditionInOrder(before, after) ==
    \A i \in 1..Len(after) :
        after[i].h = "Condition" =>
            /\ i <= Len(before) =>
                   /\ before[i].h = "Condition"
                   /\ Rank(after[i].pc) >= Rank(before[i].pc)
            /\ i > Len(before) => after[i].pc = "condition"
            /\ i < Len(after) =>
                   CASE after[i + 1].h \in {"BinOp", "Call"} ->
                            after[i].pc = "condition"
                     [] after[i + 1].h = "Then" -> after[i].pc = "then"
                     [] after[i + 1].h = "MyElse" -> after[i].pc = "myElse"
                     [] OTHER -> FALSE

(***************************************************************************)
(* C9  The pass stops on the first error.  No step is taken once an        *)
(* exception is raised; the step that raises one unwinds the whole stack   *)
(* and changes no symbol, no table and not the current scope; an Assign    *)
(* whose target does not resolve raises at the Assign, with its token,     *)
(* before anything of its right-hand side is visited; and a Condition      *)
(* visits its condition, then its Then, then its MyElse, each child only   *)
(* in its turn.                                                            *)
(***************************************************************************)
C9_StopsOnFirstError ==
    [][/\ error = NoError
       /\ outcome # "raised"
       /\ error' # NoError \/ outcome' = "raised"
          => /\ outcome' = "raised"
             /\ error' # NoError
             /\ stack' = <<>>
             /\ UNCHANGED <<syms, tables, current_scope>>
       /\ \A node \in AssignNodes :
              visit_Assign(node) /\ Resolved(node.left.value) = None
              => /\ error' = SemanticError("ID_NOT_FOUND", node.token)
                 /\ stack' = <<>>
       /\ ConditionInOrder(stack, stack')
      ]_vars

\* An error raised in a procedure's scope, which stays open, after the
\* declarations of a variable and the procedure were visited.
C9_Witness ==
    /\ outcome = "raised"
    /\ error.exception = "SemanticError"
    /\ stack = <<>>
    /\ current_scope = 3
    /\ UserSymbols(Heap) >= 2

\* The scope of the innermost function being visited is the current scope.
InFunctionScope ==
    \E i \in 1..Len(stack) :
        stack[i].h = "FunctionDecl" /\ stack[i].scope = current_scope

(***************************************************************************)
(* C4  An Assign visited in the scope of a function, whose target is the   *)
(* function's own name, sets the scope's hasReturnStatement; and a         *)
(* FunctionDecl whose body has been visited with the flag recorded raises  *)
(* nothing and leaves the scope that enclosed the function as the current  *)
(* one.                                                                    *)
(***************************************************************************)
C4_ReturnAssignmentRecorded ==
    [][/\ \A node \in AssignNodes :
              /\ visit_Assign(node)
              /\ InFunctionScope
              /\ node.left.value = tables[current_scope].scope_name
              => /\ Len(tables') = Len(tables)
                 /\ tables'[current_scope].hasReturnStatement = TRUE
       /\ /\ stack # <<>>
          /\ Top.h = "FunctionDecl"
          /\ Top.pc = "leave"
          /\ tables[Top.scope].hasReturnStatement = TRUE
          => /\ error' = NoError
             /\ current_scope' = tables[Top.scope].enclosing_scope
      ]_vars

(***************************************************************************)
(* C6  The pass returns without an error only if every declaration and     *)
(* every reference was resolved: when visit_Program has returned, every    *)
(* VarSymbol the declarations constructed has a type.                      *)
(***************************************************************************)
C6_ReturnedMeansResolved ==
    outcome = "returned" =>
        \A sym \in 1..Len(syms) :
            syms[sym].cls = "VarSymbol" => syms[sym].type # None

(***************************************************************************)
(* C1  References to declared variables.                                   *)
(***************************************************************************)
\* The tables on the chain that hold, under name, a symbol of a VarDecl.
VarDeclHolders(name) ==
    {t \in Chain(tables, current_scope) :
        /\ tables[t].symbols[name] # None
        /\ DeclaredByVarDecl(tables[t].symbols[name])}

InnermostVarDecl(name) == tables[Max(VarDeclHolders(name))].symbols[name]

\* The tables nearer than the innermost VarDecl of name that hold name: as
\* a formal parameter, a procedure or a function.
Shadowing(name) ==
    {t \in Holders(tables, current_scope, name) :
        t > Max(VarDeclHolders(name))}

ProcedureDeclFrames == {i \in 1..Len(stack) : stack[i].h = "ProcedureDecl"}

\* The symbol the procedure's own table holds under the name of parameter k.
OwnSymbol(f, k) ==
    lookup(tables, f.scope, syms[syms[f.symbol].params[k]].name, TRUE)

\* The last parameter of the procedure with the name of parameter k.
LastOfName(f, k) ==
    LET params == syms[f.symbol].params
    IN  params[Max({j \in 1..Len(params) :
                       syms[params[j]].name = syms[params[k]].name})]

\* On entry the parameter list holds one new VarSymbol for each parameter
\* of the node, in the order of node.params.
ParamsInOrder(node) ==
    LET proc_symbol == Len(syms) + 1
        params == syms'[proc_symbol].params
    IN  /\ syms'[proc_symbol].cls = "ProcedureSymbol"
        /\ Len(params) = Len(node.params)
        /\ \A k \in 1..Len(params) :
               /\ params[k] = proc_symbol + 2 + k
               /\ syms'[params[k]].cls = "VarSymbol"
               /\ syms'[params[k]].name = node.params[k].var_node.value

\* While the body is visited the list does not change.
ParamsKept ==
    \A i \in ProcedureDeclFrames :
        i <= Len(stack') /\ stack'[i].h = "ProcedureDecl" =>
            syms'[stack[i].symbol].params = syms[stack[i].symbol].params

\* Once the scope is left, a lookup of a parameter's name from the
\* enclosing scope does not return the parameter.
ParamsLeftBehind ==
    stack # <<>> /\ Top.h = "ProcedureDecl" /\ Top.pc = "leave" =>
        /\ current_scope' = tables[Top.scope].enclosing_scope
        /\ \A k \in 1..Len(syms[Top.symbol].params) :
               LET param == syms[Top.symbol].params[k]
               IN  lookup(tables', current_scope', syms[param].name, FALSE)
                       # param

\* C8 as claimed: while the body is visited every parameter resolves in the
\* procedure's own scope as a VarSymbol.
C8_ParamsAreVarSymbolsInScope ==
    [][/\ \A node \in ProcedureDeclNodes :
              visit_ProcedureDecl(node) => ParamsInOrder(node)
       /\ ParamsKept
       /\ ParamsLeftBehind
       /\ \A i \in ProcedureDeclFrames :
              \A k \in 1..Len(syms[stack[i].symbol].params) :
                  /\ OwnSymbol(stack[i], k) # None
                  /\ syms[OwnSymbol(stack[i], k)].cls = "VarSymbol"
      ]_vars

\* C8 as amended: every parameter's name resolves in the procedure's own
\* scope, to the VarSymbol of the last parameter of that name, or to the
\* ProcedureSymbol of a procedure or function of that name which the body
\* has declared since.
C8_ParamsResolveInScope ==
    [][/\ \A node \in ProcedureDeclNodes :
              visit_ProcedureDecl(node) => ParamsInOrder(node)
       /\ ParamsKept
       /\ ParamsLeftBehind
       /\ \A i \in ProcedureDeclFrames :
              \A k \in 1..Len(syms[stack[i].symbol].params) :
                  LET own == OwnSymbol(stack[i], k)
                  IN  /\ own # None
                      /\ \/ /\ syms[own].cls = "VarSymbol"
                            /\ own = LastOfName(stack[i], k)
                         \/ /\ syms[own].cls = "ProcedureSymbol"
                            /\ own > LastOfName(stack[i], k)
      ]_vars

\* The body of a procedure with two parameters of different names is being
\* visited.
C8_Witness ==
    /\ outcome = "visiting"
    /\ stack # <<>>
    /\ Top.h = "Compound"
    /\ \E i \in ProcedureDeclFrames :
           LET params == syms[stack[i].symbol].params
           IN  /\ stack[i].scope = current_scope
               /\ Len(params) = 2
               /\ syms[params[1]].name # syms[params[2]].name
               /\ OwnSymbol(stack[i], 1) = params[1]
               /\ OwnSymbol(stack[i], 2) = params[2]

C12_LevelsIncreaseByOne ==
    \A t \in Chain(tables, current_scope) :
        IF tables[t].enclosing_scope = None
        THEN tables[t].scope_level = 1
        ELSE tables[t].scope_level =
                 tables[tables[t].enclosing_scope].scope_level + 1

\* A handler that constructs a scope runs.
Pushes ==
    \/ visit_Program
    \/ /\ Visiting /\ DeclSlot(Top)
       /\ \/ \E node \in ProcedureDeclNodes : visit_ProcedureDecl(node)
          \/ \E node \in FunctionDeclNodes : visit_FunctionDecl(node)

\* The scope of the frame on top is the current one, and the step leaves
\* the scope that enclosed it as the current one.
Popped ==
    /\ current_scope = Top.scope
    /\ current_scope' = tables[Top.scope].enclosing_scope
    /\ Top.scope \notin Chain(tables', current_scope')

(***************************************************************************)
(* C13  Push and pop of scopes are balanced.  The scope a Program,         *)
(* ProcedureDecl or FunctionDecl creates encloses in the scope that is     *)
(* current when the visit begins, and no step changes what a scope         *)
(* encloses in; when the visit returns without an error the created scope  *)
(* is the current one, the scope it encloses in becomes the current one,   *)
(* and the created scope is off the chain; and when the pass has returned  *)
(* the current scope is the placeholder of the constructor.                *)
(***************************************************************************)
C13_PushPopBalanced ==
    [][/\ Pushes => /\ current_scope' = Len(tables')
                    /\ Len(tables') = Len(tables) + 1
                    /\ tables'[current_scope'].enclosing_scope = current_scope
       /\ \A t \in 1..Len(tables) :
              tables'[t].enclosing_scope = tables[t].enclosing_scope
       /\ visit_Program_leave => Popped
       /\ visit_ProcedureDecl_leave => Popped
       /\ visit_FunctionDecl_leave /\ error' = NoError => Popped
       /\ outcome' = "returned" =>
              /\ error' = NoError
              /\ current_scope' = 1
              /\ tables'[current_scope'].scope_name = "initial"
      ]_vars

\* The pass has returned from a program in which two procedures were
\* declared.
C13_Witness ==
    /\ outcome = "returned"
    /\ error = NoError
    /\ current_scope = 1
    /\ Len(tables) = 4
    /\ \E t \in 1..Len(tables) : tables[t].scope_level = 3

\* The frames of the procedures and functions whose body is being visited.
DeclFrames ==
    {i \in 1..Len(stack) : stack[i].h \in {"ProcedureDecl", "FunctionDecl"}}

\* The step of a ProcedureDecl or FunctionDecl named name up to its body:
\* the new ProcedureSymbol is in the scope that was current, the new scope
\* encloses in that scope, and a parameter whose type is the name itself
\* has found a type.
Entered(name, params) ==
    LET proc_symbol == Len(syms) + 1
    IN  /\ syms'[proc_symbol].cls = "ProcedureSymbol"
        /\ syms'[proc_symbol].name = name
        /\ tables'[current_scope].symbols[name] = proc_symbol
        /\ current_scope' = Len(tables')
        /\ tables'[current_scope'].enclosing_scope = current_scope
        /\ stack'[Len(stack) + 1].symbol = proc_symbol
        /\ \A k \in 1..Len(params) :
               params[k].type_node.value = name =>
                   syms'[syms'[proc_symbol].params[k]].type # None

\* The scope that encloses the scope of frame f holds f's symbol under f's
\* name.
HeldOutside(tbls, f) ==
    tbls[tbls[f.scope].enclosing_scope].symbols[f.name] = f.symbol

(***************************************************************************)
(* C14  A ProcedureDecl or FunctionDecl inserts its ProcedureSymbol into   *)
(* the scope that encloses its own before the parameters are declared and  *)
(* the body is visited: at every step of the body a lookup of its name     *)
(* from the current scope returns a symbol, the enclosing scope holds the  *)
(* ProcedureSymbol under the name, and it still does when the body is      *)
(* left.                                                                   *)
(***************************************************************************)
C14_SymbolInsertedBeforeDescending ==
    [][/\ Visiting /\ DeclSlot(Top) =>
              /\ \A node \in ProcedureDeclNodes :
                     visit_ProcedureDecl(node) =>
                         Entered(node.procName, node.params)
              /\ \A node \in FunctionDeclNodes :
                     visit_FunctionDecl(node) =>
                         Entered(node.funcName, node.params)
       /\ \A i \in DeclFrames :
              /\ lookup(tables, current_scope, stack[i].name, FALSE) # None
              /\ HeldOutside(tables, stack[i])
              /\ HeldOutside(tables', stack[i])
       /\ visit_ProcedureDecl_leave =>
              tables'[current_scope'].symbols[Top.name] = Top.symbol
      ]_vars

\* The body of a procedure declared inside a procedure is being visited,
\* and the name of the inner one resolves there to its ProcedureSymbol.
C14_Witness ==
    /\ outcome = "visiting"
    /\ stack # <<>>
    /\ Top.h = "Compound"
    /\ Cardinality(DeclFrames) = 2
    /\ \E i \in DeclFrames :
           /\ stack[i].scope = current_scope
           /\ Resolved(stack[i].name) = stack[i].symbol
           /\ tables[current_scope].symbols[stack[i].name] = None

\* The current scope is the scope of a procedure whose body is being visited.
InProcedureScope ==
    \E i \in 1..Len(stack) :
        stack[i].h = "ProcedureDecl" /\ stack[i].scope = current_scope

\* No scope on the chain holds a variable under name.
NoVariable(name) ==
    \A t \in Chain(tables, current_scope) :
        \/ tables[t].symbols[name] = None
        \/ syms[tables[t].symbols[name]].cls # "VarSymbol"

(***************************************************************************)
(* C15  In the scope of a procedure, an Assign whose target is the         *)
(* procedure's own name, where no scope on the chain holds a variable of   *)
(* that name, raises ID_NOT_FOUND.                                         *)
(***************************************************************************)
C15_OwnNameAssignFails ==
    [][Visiting /\ StmtSlot(Top) =>
           \A node \in AssignNodes :
               /\ visit_Assign(node)
               /\ InProcedureScope
               /\ node.left.value = tables[current_scope].scope_name
               /\ NoVariable(node.left.value)
               => error' = SemanticError("ID_NOT_FOUND", node.token)
      ]_vars

(***************************************************************************)
(* C16  A VarDecl that inserts a VarSymbol gives it a type that is a       *)
(* symbol: the one a lookup of the declared type name from the current     *)
(* scope returns.                                                          *)
(***************************************************************************)
C16_VarDeclTypeResolved ==
    [][Visiting /\ DeclSlot(Top) =>
           \A node \in VarDeclNodes :
               visit_VarDecl(node) /\ Len(syms') > Len(syms) =>
                   /\ syms'[Len(syms')].type # None
                   /\ syms'[Len(syms')].type =
                          lookup(tables, current_scope,
                                 node.type_node.value, FALSE)
      ]_vars

\* The frames of the While nodes whose condition is being visited.
WhileFrames(stk) == {i \in 1..Len(stk) : stk[i].h = "While"}

(***************************************************************************)
(* C17  visit_While visits the condition of the node and nothing else: the *)
(* handler itself raises nothing and changes no symbol and no table; what  *)
(* is visited next is an expression, in which a Var that does not resolve  *)
(* raises ID_NOT_FOUND; until the handler returns no symbol, table or      *)
(* hasReturnStatement changes; and it returns without an error whatever    *)
(* its loop body is, no handler having run on the body.                    *)
(***************************************************************************)
C17_WhileVisitsConditionOnly ==
    [][/\ Visiting /\ StmtSlot(Top) =>
              \A node \in WhileNodes :
                  visit_While(node) =>
                      /\ error' = NoError
                      /\ UNCHANGED <<syms, tables, current_scope>>
                      /\ stack' = Append(stack, stack'[Len(stack')])
                      /\ stack'[Len(stack')].h = "While"
                      /\ stack'[Len(stack')].pc = "condition"
       /\ stack # <<>> /\ Top.h = "While" =>
              /\ \/ \E node \in VarNodes : visit_Var(node)
                 \/ visit_Num
                 \/ visit_BinOp
                 \/ visit_Call
              /\ \A node \in VarNodes :
                     visit_Var(node) /\ Resolved(node.value) = None =>
                         error' = SemanticError("ID_NOT_FOUND", node.token)
       /\ WhileFrames(stack) # {} =>
              /\ UNCHANGED <<syms, tables, current_scope>>
              /\ \A i \in 1..Len(stack') :
                     i > Max(WhileFrames(stack)) =>
                         stack'[i].h \in {"BinOp", "Call"}
              /\ WhileFrames(stack') = {} /\ outcome' # "raised" =>
                     /\ error' = NoError
                     /\ Len(stack') < Max(WhileFrames(stack))
      ]_vars

\* The condition of a While is being visited whose loop body is an Assign
\* to a name that no scope on the chain holds.
C17_Witness ==
    /\ outcome = "visiting"
    /\ stack # <<>>
    /\ Top.h = "BinOp" /\ Top.pc = "right"
    /\ \E i \in WhileFrames(stack) :
           /\ i = Len(stack) - 1
           /\ stack[i].body.kind = "Assign"
           /\ Resolved(stack[i].body.left.value) = None

\* The last of params that bears the name of params[k].
LastNamed(params, k) ==
    Max({j \in 1..Len(params) :
            params[j].var_node.value = params[k].var_node.value})

\* The step of a ProcedureDecl or FunctionDecl named name up to its body
\* raises nothing; the scope that was current holds the new ProcedureSymbol
\* under name, whatever it held, and a lookup from it returns that symbol;
\* the new scope holds under each parameter's name the VarSymbol of the
\* last parameter of that name, whatever builtin or parameter it held.
Replaces(name, params) ==
    LET proc_symbol == Len(syms) + 1
    IN  /\ error' = NoError
        /\ outcome' = "visiting"
        /\ tables'[current_scope].symbols[name] = proc_symbol
        /\ lookup(tables', current_scope, name, FALSE) = proc_symbol
        /\ \A k \in 1..Len(params) :
               LET own == lookup(tables', current_scope',
                                 params[k].var_node.value, TRUE)
               IN  /\ own = proc_symbol + 2 + LastNamed(params, k)
                   /\ syms'[own].cls = "VarSymbol"
                   /\ syms'[own].name = params[k].var_node.value

(***************************************************************************)
(* C18  Duplicate detection differs between the kinds of declaration.  A   *)
(* VarDecl whose name the current scope holds as a procedure or function   *)
(* raises DUPLICATE_ID and changes no table.  A ProcedureDecl or           *)
(* FunctionDecl never raises on its name or on a parameter's: the symbol   *)
(* the target scope held under the name is replaced, and a lookup of the   *)
(* name returns the new symbol.                                            *)
(***************************************************************************)
C18_AsymmetricDuplicateDetection ==
    [][Visiting /\ DeclSlot(Top) =>
           /\ \A node \in VarDeclNodes :
                  LET held == tables[current_scope].symbols[node.var_node.value]
                  IN  /\ visit_VarDecl(node)
                      /\ held # None
                      /\ syms[held].cls = "ProcedureSymbol"
                      => /\ error' = SemanticError("DUPLICATE_ID",
                                                   node.var_node.token)
                         /\ UNCHANGED <<syms, tables>>
           /\ \A node \in ProcedureDeclNodes :
                  visit_ProcedureDecl(node) =>
                      Replaces(node.procName, node.params)
           /\ \A node \in FunctionDeclNodes :
                  visit_FunctionDecl(node) =>
                      Replaces(node.funcName, node.params)
      ]_vars

\* A variable a VarDecl declared is held by no table any more: a scope
\* holds, under its name, the ProcedureSymbol of a later declaration.
C18_Witness ==
    /\ outcome = "visiting"
    /\ \E v \in 1..Len(syms) :
           /\ DeclaredByVarDecl(v)
           /\ \A t \in 1..Len(tables) : tables[t].symbols[syms[v].name] # v
           /\ \E t \in 1..Len(tables) :
                  LET held == tables[t].symbols[syms[v].name]
                  IN  /\ held > v
                      /\ syms[held].cls = "ProcedureSymbol"
                      /\ Resolved(syms[v].name) = held

\* The parameters of the procedure of frame f that bear the name of a
\* builtin type.
BuiltinParams(f) ==
    {k \in 1..Len(syms[f.symbol].params) :
        syms[syms[f.symbol].params[k]].name \in BuiltinNames}

\* A VarDecl that names its variable INTEGER or REAL raises DUPLICATE_ID,
\* in whatever scope, and changes no symbol and no table.
BuiltinNotRedeclared ==
    Visiting /\ DeclSlot(Top) =>
        \A node \in VarDeclNodes :
            visit_VarDecl(node) /\ node.var_node.value \in BuiltinNames =>
                /\ error' = SemanticError("DUPLICATE_ID", node.var_node.token)
                /\ UNCHANGED <<syms, tables>>

\* A ProcedureDecl with a parameter named INTEGER or REAL raises nothing,
\* and its new scope holds a parameter's VarSymbol under that name.
BuiltinReplacedByParam ==
    Visiting /\ DeclSlot(Top) =>
        \A node \in ProcedureDeclNodes :
            visit_ProcedureDecl(node) =>
                \A k \in 1..Len(node.params) :
                    node.params[k].var_node.value \in BuiltinNames =>
                        LET own == lookup(tables', current_scope',
                                          node.params[k].var_node.value, TRUE)
                        IN  /\ error' = NoError
                            /\ syms'[own].cls = "VarSymbol"
                            /\ \E j \in 1..Len(node.params) :
                                   syms'[Len(syms) + 1].params[j] = own

(***************************************************************************)
(* C19 as claimed: a VarDecl named INTEGER or REAL raises DUPLICATE_ID in  *)
(* every scope; a parameter of that name is accepted and replaces the      *)
(* builtin of the procedure's scope; and whenever that scope is the        *)
(* current one afterwards, a lookup of the name returns the VarSymbol of   *)
(* a parameter.                                                            *)
(***************************************************************************)
C19_BuiltinShadowedByParamOnly ==
    [][/\ BuiltinNotRedeclared
       /\ BuiltinReplacedByParam
       /\ \A i \in ProcedureDeclFrames :
              stack[i].scope = current_scope =>
                  \A k \in BuiltinParams(stack[i]) :
                      LET found == lookup(tables, current_scope,
                                          syms[syms[stack[i].symbol].params[k]].name,
                                          FALSE)
                      IN  /\ found # None
                          /\ syms[found].cls = "VarSymbol"
                          /\ found = LastOfName(stack[i], k)
      ]_vars

(***************************************************************************)
(* C19 as amended: the same, but the lookup returns the VarSymbol of the   *)
(* last parameter of that name or, once a procedure or function of that    *)
(* name has been declared in the scope, the ProcedureSymbol of that        *)
(* declaration; never a builtin type symbol.                               *)
(***************************************************************************)
C19_BuiltinShadowedByParam ==
    [][/\ BuiltinNotRedeclared
       /\ BuiltinReplacedByParam
       /\ \A i \in ProcedureDeclFrames :
              stack[i].scope = current_scope =>
                  \A k \in BuiltinParams(stack[i]) :
                      LET found == lookup(tables, current_scope,
                                          syms[syms[stack[i].symbol].params[k]].name,
                                          FALSE)
                      IN  /\ found # None
                          /\ syms[found].cls # "BuiltinTypeSymbol"
                          /\ \/ /\ syms[found].cls = "VarSymbol"
                                /\ found = LastOfName(stack[i], k)
                             \/ /\ syms[found].cls = "ProcedureSymbol"
                                /\ found > LastOfName(stack[i], k)
      ]_vars

\* The declarations of a procedure with a parameter named INTEGER are
\* being visited after one of them: INTEGER resolves to the parameter.
C19_Witness ==
    /\ outcome = "visiting"
    /\ stack # <<>>
    /\ DeclSlot(Top)
    /\ \E i \in ProcedureDeclFrames :
           /\ stack[i].scope = current_scope
           /\ BuiltinParams(stack[i]) # {}
           /\ UserSymbols(Heap) > Len(syms[stack[i].symbol].params) + 1
           /\ syms[Resolved("INTEGER")].cls = "VarSymbol"
           /\ IsParam(Resolved("INTEGER"))

====
